---- MODULE Spec2Model ----
(***************************************************************************)
(* A model of dillnet.py: the associative scan engine (binary_operator,    *)
(* associative_scan), the selective scan wiring of MambaBlock, its causal  *)
(* depthwise convolution, the decay weights of Retention, the rotary       *)
(* position encoding and the alternation of mixers in DillNet.             *)
(*                                                                         *)
(* Tensors are modelled over the integers (exact arithmetic): a tensor     *)
(* with a leading (scan) axis is a sequence of rows, a row is a function   *)
(* from the trailing index set to a number.                                *)
(***************************************************************************)
EXTENDS Integers, Sequences, FiniteSets, TLC

VARIABLES
    pc,             \* position of the running function
    elems,          \* associative_scan: the argument, <<A, Bu>>
    scanned_elems,  \* associative_scan: the local scanned_elems, <<A, Bu>>
    num_elems,      \* associative_scan: the local num_elems
    stride,         \* associative_scan: the local stride
    rounds,         \* history: every binary_operator call of the scan, in order,
                    \*   [phase, stride, len_i, len_j]
    op,             \* binary_operator: three operands and the results of
                    \*   combining them in the two groupings
    ret,            \* Retention.forward: T, gamma, idx, diff, t_w
    net,            \* DillNet.__init__: the arguments and self.blocks
    conv,           \* MambaBlock._forward_logic: x_in and the convolution
    rot,            \* RotaryEmbedding.forward: x, emb and the result
    sel             \* MambaBlock.selective_scan: deltaA, deltaB_u and ys

scanVars == <<elems, scanned_elems, num_elems, stride, rounds>>

vars == <<pc, scanVars, op, ret, net, conv, rot, sel>>

\* The value of the variables of a function that is not running.
Idle == <<>>

ScanIdle ==
    /\ elems = Idle
    /\ scanned_elems = Idle
    /\ num_elems = 0
    /\ stride = 0
    /\ rounds = <<>>

(***************************************************************************)
(* Bounds of the model.                                                    *)
(***************************************************************************)
MaxLen == 6

\* The (A, Bu) pairs an input position is drawn from.
ScanPairs == {<<2, 1>>, <<-1, 2>>, <<0, 3>>}

(***************************************************************************)
(* Python slicing x[start:stop] along the leading axis: a negative bound   *)
(* counts from the end, both bounds are clamped to 0..len, and an empty    *)
(* or inverted range gives the empty tensor.                               *)
(***************************************************************************)
SliceBound(n, b) ==
    LET c == IF b < 0 THEN b + n ELSE b
    IN IF c < 0 THEN 0 ELSE IF c > n THEN n ELSE c

Slice(x, start, stop) ==
    LET lo == SliceBound(Len(x), start)
        hi == SliceBound(Len(x), stop)
    IN IF hi <= lo THEN <<>> ELSE SubSeq(x, lo + 1, hi)

\* x[start:]
SliceFrom(x, start) == Slice(x, start, Len(x))

\* x[:stop]
SliceTo(x, stop) == Slice(x, 0, stop)

\* torch.cat((a, b), dim=0)
Cat(a, b) == a \o b

(***************************************************************************)
(* Elementwise tensor arithmetic.  Operands of unequal leading length do   *)
(* not broadcast here (a length other than 1 raises in torch); the result  *)
(* "shape_error" marks it.                                                 *)
(***************************************************************************)
SameShape(x, y) ==
    /\ Len(x) = Len(y)
    /\ \A k \in 1..Len(x) : DOMAIN x[k] = DOMAIN y[k]

\* x * y
TMul(x, y) ==
    IF SameShape(x, y)
    THEN [k \in 1..Len(x) |-> [c \in DOMAIN x[k] |-> x[k][c] * y[k][c]]]
    ELSE "shape_error"

\* torch.addcmul(t, x, y) = t + x * y
TAddCMul(t, x, y) ==
    IF SameShape(x, y) /\ SameShape(t, x)
    THEN [k \in 1..Len(x) |-> [c \in DOMAIN x[k] |-> t[k][c] + x[k][c] * y[k][c]]]
    ELSE "shape_error"

(***************************************************************************)
(* binary_operator (lines 75-79).                                          *)
(***************************************************************************)
binary_operator_wrong_gain(q_i, q_j) ==
    <<TMul(q_j[1], q_i[1]), TAddCMul(q_j[2], q_i[1], q_i[2])>>

binary_operator(q_i, q_j) ==
    <<TMul(q_j[1], q_i[1]), TAddCMul(q_j[2], q_j[1], q_i[2])>>

(***************************************************************************)
(* associative_scan (lines 81-111), one definition per statement group.    *)
(***************************************************************************)
\* line 83: scanned_elems = (elems[0].clone(), elems[1].clone())
CloneElemsFirstTwice(e) == <<e[1], e[1]>>

CloneElems(e) == <<e[1], e[2]>>

\* line 86: if num_elems <= 1: return scanned_elems
IsDegenerate(n) == n <= 1

\* line 90: while stride < num_elems
UpCondInclusive(s, n) == s <= n

UpCond(s, n) == s < n

\* lines 91-92: the two operands of an up-sweep round
UpOperands(se, s) ==
    [q_i |-> <<SliceTo(se[1], -s), SliceTo(se[2], -s)>>,
     q_j |-> <<SliceFrom(se[1], s), SliceFrom(se[2], s)>>]

\* lines 91-96: one up-sweep round
UpRoundSwapped(se, s) ==
    LET o   == UpOperands(se, s)
        res == binary_operator(o.q_j, o.q_i)
    IN <<Cat(SliceTo(se[1], s), res[1]), Cat(SliceTo(se[2], s), res[2])>>

UpRound(se, s) ==
    LET o   == UpOperands(se, s)
        res == binary_operator(o.q_i, o.q_j)
    IN <<Cat(SliceTo(se[1], s), res[1]), Cat(SliceTo(se[2], s), res[2])>>

\* line 100: stride = stride // 2
DownStart(s) == s \div 2

\* line 101: while stride > 0
DownCond(s) == s > 0

\* lines 102-103: the two operands of a down-sweep round
DownOperands(se, s) ==
    [q_i |-> <<Slice(se[1], s - 1, -s), Slice(se[2], s - 1, -s)>>,
     q_j |-> <<SliceFrom(se[1], 2 * s - 1), SliceFrom(se[2], 2 * s - 1)>>]

\* lines 102-107: one down-sweep round
DownRound(se, s) ==
    LET o   == DownOperands(se, s)
        res == binary_operator(o.q_i, o.q_j)
    IN <<Cat(SliceTo(se[1], 2 * s - 1), res[1]),
         Cat(SliceTo(se[2], 2 * s - 1), res[2])>>

\* The whole function, as the loops run it.
RECURSIVE UpLoop(_, _, _)
UpLoop(se, s, n) ==
    IF UpCond(s, n) THEN UpLoop(UpRound(se, s), s * 2, n) ELSE <<se, s>>

RECURSIVE DownLoop(_, _)
DownLoop(se, s) ==
    IF DownCond(s) THEN DownLoop(DownRound(se, s), s \div 2) ELSE se

associative_scan(e) ==
    LET se == CloneElems(e)
        n  == Len(se[1])
    IN IF IsDegenerate(n)
       THEN se
       ELSE LET up == UpLoop(se, 1, n)
            IN DownLoop(up[1], DownStart(up[2]))

(***************************************************************************)
(* associative_scan run statement by statement.                            *)
(***************************************************************************)
\* A scalar tensor of length L: rows over the one-point trailing index set.
Row(v) == <<v>>

ScanInputs ==
    UNION {[1..L -> ScanPairs] : L \in 0..MaxLen}

TensorsOf(f) ==
    <<[k \in 1..Len(f) |-> Row(f[k][1])], [k \in 1..Len(f) |-> Row(f[k][2])]>>

ScanInit ==
    /\ pc = "scan_call"
    /\ \E f \in ScanInputs : elems = TensorsOf(f)
    /\ scanned_elems = <<<<>>, <<>>>>
    /\ num_elems = 0
    /\ stride = 0
    /\ rounds = <<>>
    /\ op = Idle /\ ret = Idle /\ net = Idle /\ conv = Idle /\ rot = Idle /\ sel = Idle

\* lines 83-89
ScanEnter ==
    /\ pc = "scan_call"
    /\ scanned_elems' = CloneElems(elems)
    /\ num_elems' = Len(CloneElems(elems)[1])
    /\ IF IsDegenerate(Len(CloneElems(elems)[1]))
       THEN pc' = "scan_done" /\ stride' = stride
       ELSE pc' = "scan_up" /\ stride' = 1
    /\ UNCHANGED <<elems, rounds, op, ret, net, conv, rot, sel>>

\* lines 90-98
ScanUpStep ==
    /\ pc = "scan_up"
    /\ UpCond(stride, num_elems)
    /\ scanned_elems' = UpRound(scanned_elems, stride)
    /\ rounds' = Append(rounds,
                    [phase |-> "up", stride |-> stride,
                     len_i |-> Len(UpOperands(scanned_elems, stride).q_i[1]),
                     len_j |-> Len(UpOperands(scanned_elems, stride).q_j[1])])
    /\ stride' = stride * 2
    /\ UNCHANGED <<pc, elems, num_elems, op, ret, net, conv, rot, sel>>

\* lines 90, 100
ScanUpExit ==
    /\ pc = "scan_up"
    /\ ~UpCond(stride, num_elems)
    /\ stride' = DownStart(stride)
    /\ pc' = "scan_down"
    /\ UNCHANGED <<elems, scanned_elems, num_elems, rounds, op, ret, net, conv, rot, sel>>

\* lines 101-109
ScanDownStep ==
    /\ pc = "scan_down"
    /\ DownCond(stride)
    /\ scanned_elems' = DownRound(scanned_elems, stride)
    /\ rounds' = Append(rounds,
                    [phase |-> "down", stride |-> stride,
                     len_i |-> Len(DownOperands(scanned_elems, stride).q_i[1]),
                     len_j |-> Len(DownOperands(scanned_elems, stride).q_j[1])])
    /\ stride' = stride \div 2
    /\ UNCHANGED <<pc, elems, num_elems, op, ret, net, conv, rot, sel>>

\* lines 101, 111
ScanReturn ==
    /\ pc = "scan_down"
    /\ ~DownCond(stride)
    /\ pc' = "scan_done"
    /\ UNCHANGED <<scanVars, op, ret, net, conv, rot, sel>>

ScanNext ==
    \/ ScanEnter
    \/ ScanUpStep
    \/ ScanUpExit
    \/ ScanDownStep
    \/ ScanReturn

SpecScan == ScanInit /\ [][ScanNext]_vars

(***************************************************************************)
(* The sequential recurrence the scan stands for, over positions lo..hi of *)
(* the input (1-based): the product of the A's, and h with                 *)
(* h = A * h_prev + Bu started from 0.                                     *)
(***************************************************************************)
RECURSIVE SeqA(_, _, _)
SeqA(e, lo, hi) ==
    IF hi < lo THEN 1 ELSE e[1][hi][1] * SeqA(e, lo, hi - 1)

RECURSIVE SeqBu(_, _, _)
SeqBu(e, lo, hi) ==
    IF hi < lo THEN 0 ELSE e[1][hi][1] * SeqBu(e, lo, hi - 1) + e[2][hi][1]

HoldsWindow(se, e, k, lo) ==
    /\ se[1][k] = Row(SeqA(e, lo, k))
    /\ se[2][k] = Row(SeqBu(e, lo, k))

RECURSIVE Pow2(_)
Pow2(r) == IF r <= 0 THEN 1 ELSE 2 * Pow2(r - 1)

\* ceil(log2 L) for L >= 1
CeilLog2(L) == CHOOSE r \in 0..L : Pow2(r) >= L /\ (r = 0 \/ Pow2(r - 1) < L)

Max(a, b) == IF a >= b THEN a ELSE b

(***************************************************************************)
(* C1: for every scan length and input, associative_scan returns at every  *)
(* position k the left-to-right fold over elements 0..k: the product of    *)
(* the A's and the recurrence value h_k with zero initial state.           *)
(***************************************************************************)
C1_ScanIsSequentialFold ==
    pc = "scan_done" =>
        /\ Len(scanned_elems[1]) = Len(elems[1])
        /\ Len(scanned_elems[2]) = Len(elems[2])
        /\ \A k \in 1..Len(elems[1]) : HoldsWindow(scanned_elems, elems, k, 1)

(***************************************************************************)
(* C2: with a scan axis of length 0 or 1, associative_scan performs no     *)
(* combine step and returns a pair equal to its input.                     *)
(***************************************************************************)
C2_DegenerateIsIdentity ==
    (pc = "scan_done" /\ Len(elems[1]) <= 1) =>
        /\ scanned_elems = elems
        /\ rounds = <<>>

C2_Witness ==
    /\ pc = "scan_done"
    /\ Len(elems[1]) = 1
    /\ elems[1] # elems[2]
    /\ scanned_elems = elems

(***************************************************************************)
(* C9: for L >= 2 the scan runs exactly ceil(log2 L) up-sweep rounds with  *)
(* strides 1, 2, 4, ... (the last one the largest power of two below L),   *)
(* then exactly ceil(log2 L) down-sweep rounds with the same strides in    *)
(* reverse, and then returns; the two operands of every round have equal   *)
(* length and the sequence length stays L.  Termination: the rounds done   *)
(* so far are always a prefix of that schedule and a step is enabled in    *)
(* every state but the final one.                                          *)
(***************************************************************************)
C9_RoundSchedule ==
    LET L == Len(elems[1])
        R == CeilLog2(L)
    IN (pc # "scan_call" /\ L >= 2) =>
        /\ Pow2(R - 1) < L /\ L <= Pow2(R)
        /\ Len(scanned_elems[1]) = L
        /\ Len(scanned_elems[2]) = L
        /\ Len(rounds) <= 2 * R
        /\ \A r \in 1..Len(rounds) :
              /\ rounds[r].len_i = rounds[r].len_j
              /\ IF r <= R
                 THEN rounds[r].phase = "up" /\ rounds[r].stride = Pow2(r - 1)
                 ELSE rounds[r].phase = "down" /\ rounds[r].stride = Pow2(2 * R - r)
        /\ (pc = "scan_up" => Len(rounds) <= R)
        /\ (pc = "scan_down" => Len(rounds) >= R)
        /\ (pc = "scan_done" => Len(rounds) = 2 * R)
        /\ (pc # "scan_done" => ENABLED ScanNext)

C9_Witness ==
    /\ pc = "scan_done"
    /\ Len(elems[1]) = 5
    /\ Len(rounds) = 6
    /\ rounds[3].stride = 4 /\ rounds[3].len_i = 1
    /\ rounds[4].stride = 4 /\ rounds[4].len_i = 0

(***************************************************************************)
(* C10: after the up-sweep round with stride s every position k holds the  *)
(* ordered composition of the input elements max(0, k-2s+1)..k; so when    *)
(* the up-sweep loop has exited, and before any down-sweep round, every    *)
(* position k holds the composition of the input elements 0..k.            *)
(***************************************************************************)
C10_UpSweepInvariant ==
    /\ (pc = "scan_up" /\ rounds # <<>>) =>
          \A k \in 1..Len(elems[1]) :
              HoldsWindow(scanned_elems, elems, k, Max(1, k - stride + 1))
    /\ (pc = "scan_down" /\ rounds # <<>> /\ rounds[Len(rounds)].phase = "up") =>
          \A k \in 1..Len(elems[1]) : HoldsWindow(scanned_elems, elems, k, 1)

C10_Witness ==
    /\ pc = "scan_down"
    /\ Len(elems[1]) = 5
    /\ Len(rounds) = 3
    /\ rounds[3].phase = "up"
    /\ scanned_elems[2][5] # elems[2][5]
    /\ \A k \in 1..5 : HoldsWindow(scanned_elems, elems, k, 1)

(***************************************************************************)
(* binary_operator applied to three operands a, b, c (tensors of length    *)
(* one) in the two groupings (a b) c and a (b c).                          *)
(***************************************************************************)
OpPairs == {<<2, 1>>, <<-1, 2>>, <<0, 3>>, <<3, -1>>}

Scalar(p) == <<<<Row(p[1])>>, <<Row(p[2])>>>>

OpInit ==
    /\ pc = "op"
    /\ \E a \in OpPairs, b \in OpPairs, c \in OpPairs :
          op = [q_a |-> Scalar(a), q_b |-> Scalar(b), q_c |-> Scalar(c),
                ab |-> Idle, bc |-> Idle, left |-> Idle, right |-> Idle]
    /\ ScanIdle
    /\ ret = Idle /\ net = Idle /\ conv = Idle /\ rot = Idle /\ sel = Idle

OpCombineAB ==
    /\ pc = "op"
    /\ op.ab = Idle
    /\ op' = [op EXCEPT !.ab = binary_operator(op.q_a, op.q_b)]
    /\ UNCHANGED <<pc, scanVars, ret, net, conv, rot, sel>>

OpCombineLeft ==
    /\ pc = "op"
    /\ op.ab # Idle
    /\ op.left = Idle
    /\ op' = [op EXCEPT !.left = binary_operator(op.ab, op.q_c)]
    /\ UNCHANGED <<pc, scanVars, ret, net, conv, rot, sel>>

OpCombineBC ==
    /\ pc = "op"
    /\ op.bc = Idle
    /\ op' = [op EXCEPT !.bc = binary_operator(op.q_b, op.q_c)]
    /\ UNCHANGED <<pc, scanVars, ret, net, conv, rot, sel>>

OpCombineRight ==
    /\ pc = "op"
    /\ op.bc # Idle
    /\ op.right = Idle
    /\ op' = [op EXCEPT !.right = binary_operator(op.q_a, op.bc)]
    /\ UNCHANGED <<pc, scanVars, ret, net, conv, rot, sel>>

OpNext ==
    \/ OpCombineAB
    \/ OpCombineLeft
    \/ OpCombineBC
    \/ OpCombineRight

SpecOp == OpInit /\ [][OpNext]_vars

(***************************************************************************)
(* C3: binary_operator is associative: combining (a b) with c gives the    *)
(* same pair as combining a with (b c).                                    *)
(***************************************************************************)
C3_OperatorAssociative ==
    (pc = "op" /\ op.left # Idle /\ op.right # Idle) => op.left = op.right

C3_Witness ==
    /\ pc = "op"
    /\ op.left # Idle
    /\ op.right # Idle
    /\ op.left = op.right
    /\ op.q_a # op.q_b
    /\ op.q_b # op.q_c
    /\ binary_operator(op.q_a, op.q_b) # binary_operator(op.q_b, op.q_a)

(***************************************************************************)
(* Retention.forward, lines 62-65: the decay weights t_w.                  *)
(*                                                                         *)
(* A rational is a pair <<numerator, denominator>>.  A head's gamma_param  *)
(* is a logarithm ln(a/b), held as <<a, b>>, so that its sigmoid is the    *)
(* rational a/(a+b).  The exponential of a rational q is held as the       *)
(* record [exp |-> q] with q in lowest terms: two exponentials are equal   *)
(* exactly when their exponents are, and 1.0 is the exponential of 0.      *)
(***************************************************************************)
MaxT == 4
MaxHeads == 2

\* gamma_param (line 49, torch.randn): ln(1/3), ln(1), ln(3)
GammaParams == {<<1, 3>>, <<1, 1>>, <<3, 1>>}

RECURSIVE IntPow(_, _)
IntPow(b, n) == IF n <= 0 THEN 1 ELSE b * IntPow(b, n - 1)

RECURSIVE Gcd(_, _)
Gcd(x, y) == IF y = 0 THEN x ELSE Gcd(y, x % y)

Abs(x) == IF x < 0 THEN -x ELSE x

\* a rational in lowest terms, the denominator positive
RatNorm(q) ==
    LET g == Gcd(Abs(q[1]), Abs(q[2]))
        sg == IF q[2] < 0 THEN -1 ELSE 1
    IN <<sg * (q[1] \div g), sg * (q[2] \div g)>>

RatScale(n, r) == <<n * r[1], r[2]>>

RatNeg(r) == <<-r[1], r[2]>>

\* torch.sigmoid(p) = e^p / (1 + e^p), for p = ln(a/b)
Sigmoid(p) == <<p[1], p[1] + p[2]>>

\* torch.exp(q)
Exp(q) == [exp |-> RatNorm(q)]

\* 1.0
One == [exp |-> <<0, 1>>]

\* line 63: torch.arange(T)
Arange(T) == [k \in 1..T |-> k - 1]

\* .clamp(min=0)
ClampAbs(x) == IF x < 0 THEN -x ELSE x

ClampMin0(x) == IF x < 0 THEN 0 ELSE x

\* line 64: (idx.unsqueeze(1) - idx.unsqueeze(0)).clamp(min=0)
DiffMatrix(idx) ==
    [i \in 1..Len(idx) |-> [j \in 1..Len(idx) |-> ClampMin0(idx[i] - idx[j])]]

\* line 65: torch.exp(-gamma.view(heads, 1, 1) * diff)
DecayWeights(gamma, diff) ==
    [h \in 1..Len(gamma) |->
        [i \in 1..Len(diff) |->
            [j \in 1..Len(diff) |-> Exp(RatScale(diff[i][j], RatNeg(gamma[h])))]]]

RetInit ==
    /\ pc = "ret_call"
    /\ \E T \in 1..MaxT, H \in 1..MaxHeads :
          \E g \in [1..H -> GammaParams] :
              ret = [T |-> T, gamma_param |-> g, gamma |-> Idle, idx |-> Idle,
                     diff |-> Idle, t_w |-> Idle]
    /\ ScanIdle
    /\ op = Idle /\ net = Idle /\ conv = Idle /\ rot = Idle /\ sel = Idle

\* line 62
RetGamma ==
    /\ pc = "ret_call"
    /\ ret' = [ret EXCEPT !.gamma = [h \in 1..Len(ret.gamma_param) |->
                                         Sigmoid(ret.gamma_param[h])]]
    /\ pc' = "ret_idx"
    /\ UNCHANGED <<scanVars, op, net, conv, rot, sel>>

\* line 63
RetIdx ==
    /\ pc = "ret_idx"
    /\ ret' = [ret EXCEPT !.idx = Arange(ret.T)]
    /\ pc' = "ret_diff"
    /\ UNCHANGED <<scanVars, op, net, conv, rot, sel>>

\* line 64
RetDiff ==
    /\ pc = "ret_diff"
    /\ ret' = [ret EXCEPT !.diff = DiffMatrix(ret.idx)]
    /\ pc' = "ret_tw"
    /\ UNCHANGED <<scanVars, op, net, conv, rot, sel>>

\* line 65
RetWeights ==
    /\ pc = "ret_tw"
    /\ ret' = [ret EXCEPT !.t_w = DecayWeights(ret.gamma, ret.diff)]
    /\ pc' = "ret_done"
    /\ UNCHANGED <<scanVars, op, net, conv, rot, sel>>

RetNext ==
    \/ RetGamma
    \/ RetIdx
    \/ RetDiff
    \/ RetWeights

SpecRetention == RetInit /\ [][RetNext]_vars

(***************************************************************************)
(* C4: for every head h, query time i and key time j the decay weight is   *)
(* 1.0 when i <= j (a future key is not masked: distance 0) and            *)
(* exp(-gamma_h * (i - j)) when i > j.                                     *)
(***************************************************************************)
C4_DecayWeight ==
    pc = "ret_done" =>
        /\ Len(ret.t_w) = Len(ret.gamma_param)
        /\ \A h \in 1..Len(ret.gamma_param) :
              /\ Len(ret.t_w[h]) = ret.T
              /\ \A i \in 0..(ret.T - 1) :
                    /\ Len(ret.t_w[h][i + 1]) = ret.T
                    /\ \A j \in 0..(ret.T - 1) :
                          ret.t_w[h][i + 1][j + 1] =
                              IF i <= j
                              THEN One
                              ELSE Exp(RatScale(-(i - j), ret.gamma[h]))

C4_Witness ==
    /\ pc = "ret_done"
    /\ ret.T = 4
    /\ Len(ret.gamma_param) = 2
    /\ ret.gamma_param[1] # ret.gamma_param[2]
    /\ ret.t_w[1][1][4] = One
    /\ ret.t_w[1][4][1] # One
    /\ ret.t_w[1][4][1] # ret.t_w[2][4][1]

(***************************************************************************)
(* DillNet.__init__ (lines 208-214) building its blocks, each by           *)
(* DillNetBlock.__init__ (lines 180-198).                                  *)
(***************************************************************************)
MaxDepth == 6

\* The arguments of DillNet: embed_dim, heads (8 is the default) and ffn_dim
\* (<<>> is None, the default; <<n>> is n).
EmbedDims == {32}
HeadsChoices == {4, 8}
FfnChoices == {<<>>, <<64>>}

\* line 211: use_mamba=(i % 2 != 0)
UseMambaOnEven(i) == i % 2 = 0

UseMamba(i) == i % 2 # 0

\* lines 182-183
FfnDim(embed_dim, ffn_dim) == IF ffn_dim = <<>> THEN embed_dim * 4 ELSE ffn_dim[1]

NetInit ==
    /\ pc = "net_loop"
    /\ \E e \in EmbedDims, d \in 0..MaxDepth, h \in HeadsChoices, f \in FfnChoices :
          net = [embed_dim |-> e, depth |-> d, heads |-> h, ffn_dim |-> f,
                 i |-> 0, blocks |-> <<>>, block |-> Idle, final_norm |-> FALSE]
    /\ ScanIdle
    /\ op = Idle /\ ret = Idle /\ conv = Idle /\ rot = Idle /\ sel = Idle

\* lines 211-212, 182-186: the next i of range(depth); DillNetBlock.__init__ up to norm1
NetBlockBegin ==
    /\ pc = "net_loop"
    /\ net.i < net.depth
    /\ net' = [net EXCEPT !.block =
                  [use_mamba |-> UseMamba(net.i),
                   ffn_dim |-> FfnDim(net.embed_dim, net.ffn_dim),
                   heads |-> net.heads]]
    /\ pc' = "net_block"
    /\ UNCHANGED <<scanVars, op, ret, conv, rot, sel>>

\* lines 188-189, 193-198, 210
NetBlockMamba ==
    /\ pc = "net_block"
    /\ net.block.use_mamba
    /\ net' = [net EXCEPT
                  !.blocks = Append(net.blocks,
                       [use_mamba |-> net.block.use_mamba,
                        attention_layer |-> "MambaBlock",
                        ffn_dim |-> net.block.ffn_dim]),
                  !.block = Idle,
                  !.i = net.i + 1]
    /\ pc' = "net_loop"
    /\ UNCHANGED <<scanVars, op, ret, conv, rot, sel>>

\* lines 190-191, 193-198, 210
NetBlockRetention ==
    /\ pc = "net_block"
    /\ ~net.block.use_mamba
    /\ net' = [net EXCEPT
                  !.blocks = Append(net.blocks,
                       [use_mamba |-> net.block.use_mamba,
                        attention_layer |-> "Retention",
                        ffn_dim |-> net.block.ffn_dim]),
                  !.block = Idle,
                  !.i = net.i + 1]
    /\ pc' = "net_loop"
    /\ UNCHANGED <<scanVars, op, ret, conv, rot, sel>>

\* line 214
NetFinalNorm ==
    /\ pc = "net_loop"
    /\ net.i >= net.depth
    /\ net' = [net EXCEPT !.final_norm = TRUE]
    /\ pc' = "net_done"
    /\ UNCHANGED <<scanVars, op, ret, conv, rot, sel>>

NetNext ==
    \/ NetBlockBegin
    \/ NetBlockMamba
    \/ NetBlockRetention
    \/ NetFinalNorm

SpecNet == NetInit /\ [][NetNext]_vars

(***************************************************************************)
(* C5: the block DillNet builds at 0-based index i uses the Retention      *)
(* mixer when i is even and MambaBlock when i is odd, for every depth;     *)
(* the finished network has depth blocks.                                  *)
(***************************************************************************)
C5_Alternation ==
    /\ pc \in {"net_loop", "net_block", "net_done"} =>
          \A i \in 0..(Len(net.blocks) - 1) :
              net.blocks[i + 1].attention_layer =
                  IF i % 2 = 0 THEN "Retention" ELSE "MambaBlock"
    /\ pc = "net_done" => Len(net.blocks) = net.depth

C5_Witness ==
    /\ pc = "net_done"
    /\ net.depth = 6
    /\ \A i \in {0, 2, 4} : net.blocks[i + 1].attention_layer = "Retention"
    /\ \A i \in {1, 3, 5} : net.blocks[i + 1].attention_layer = "MambaBlock"

(***************************************************************************)
(* MambaBlock: the depthwise convolution of _forward_logic (line 141) with *)
(* the Conv1d built in __init__ (lines 122-128), for one batch element.    *)
(* x_in is a sequence over time of rows over the channels.  To compare     *)
(* what an output position depends on, the convolution is run on two       *)
(* inputs that differ in exactly one position (time at, channel ch).       *)
(***************************************************************************)
MaxConvT == 3
MaxDConv == 3

\* embed_dim (the number of channels) and the values of x_in
ConvChannels == {1, 2}
ConvValues == {0, 1}

\* The learned parameters of the Conv1d: weight[c][m] (one kernel per
\* channel, all taps nonzero) and bias[c], drawn by a seed.
ConvSeeds == {1, 2}
ConvWeight(seed, c, m) == seed + c + 2 * m
ConvBias(seed, c) == seed * c

\* x_in.transpose(1, 2): time-major to channel-major
Transpose(x, rows, cols) == [c \in 1..cols |-> [t \in 1..rows |-> x[t][c]]]

\* padding=d_conv - 1: that many zeros on each side of every channel
RECURSIVE Zeros(_)
Zeros(n) == IF n <= 0 THEN <<>> ELSE <<0>> \o Zeros(n - 1)

PadBoth(xc, d_conv) ==
    [c \in 1..Len(xc) |-> Zeros(d_conv - 1) \o xc[c] \o Zeros(d_conv - 1)]

\* the sum over the kernel taps m = 0..d_conv-1 of weight[c][m] * padded[c][p+m]
RECURSIVE TapSum(_, _, _, _, _)
TapSum(seed, c, row, p, m) ==
    IF m < 0 THEN 0
    ELSE ConvWeight(seed, c, m) * row[p + m] + TapSum(seed, c, row, p, m - 1)

\* groups=embed_dim: channel c of the output reads channel c of the input only;
\* the output has len(padded) - d_conv + 1 positions
Correlate(seed, padded, d_conv) ==
    [c \in 1..Len(padded) |->
        [p \in 1..(Len(padded[c]) - d_conv + 1) |->
            ConvBias(seed, c) + TapSum(seed, c, padded[c], p, d_conv - 1)]]

\* [:, :, :T]
TruncateLast(full, T) == [c \in 1..Len(full) |-> SliceFrom(full[c], -T)]

Truncate(full, T) == [c \in 1..Len(full) |-> SliceTo(full[c], T)]

\* line 141, up to the padding inside conv1d
PaddedInput(x, T, D, d_conv) == PadBoth(Transpose(x, T, D), d_conv)

\* line 141, after conv1d
TruncatedOutput(full, T, D) ==
    LET tr == Truncate(full, T)
    IN Transpose(tr, D, Len(tr[1]))

ConvInit ==
    /\ pc = "conv_call"
    /\ \E T \in 1..MaxConvT, C \in ConvChannels, K \in 1..MaxDConv, seed \in ConvSeeds :
          \E x \in [1..T -> [1..C -> ConvValues]], at \in 1..T, ch \in 1..C :
              conv = [T |-> T, D |-> C, d_conv |-> K, seed |-> seed,
                      at |-> at, ch |-> ch,
                      x_in |-> <<x, [x EXCEPT ![at][ch] = x[at][ch] + 1]>>,
                      padded |-> Idle, full |-> Idle, x_conv |-> Idle]
    /\ ScanIdle
    /\ op = Idle /\ ret = Idle /\ net = Idle /\ rot = Idle /\ sel = Idle

\* line 141, x_in.transpose(1, 2) and the padding of conv1d (line 126)
ConvPad ==
    /\ pc = "conv_call"
    /\ conv' = [conv EXCEPT !.padded =
                    <<PaddedInput(conv.x_in[1], conv.T, conv.D, conv.d_conv),
                      PaddedInput(conv.x_in[2], conv.T, conv.D, conv.d_conv)>>]
    /\ pc' = "conv_padded"
    /\ UNCHANGED <<scanVars, op, ret, net, rot, sel>>

\* line 141, self.conv1d(...) (lines 122-128)
ConvCorrelate ==
    /\ pc = "conv_padded"
    /\ conv' = [conv EXCEPT !.full =
                    <<Correlate(conv.seed, conv.padded[1], conv.d_conv),
                      Correlate(conv.seed, conv.padded[2], conv.d_conv)>>]
    /\ pc' = "conv_full"
    /\ UNCHANGED <<scanVars, op, ret, net, rot, sel>>

\* line 141, [:, :, :T].transpose(1, 2)
ConvTruncate ==
    /\ pc = "conv_full"
    /\ conv' = [conv EXCEPT !.x_conv =
                    <<TruncatedOutput(conv.full[1], conv.T, conv.D),
                      TruncatedOutput(conv.full[2], conv.T, conv.D)>>]
    /\ pc' = "conv_done"
    /\ UNCHANGED <<scanVars, op, ret, net, rot, sel>>

ConvNext ==
    \/ ConvPad
    \/ ConvCorrelate
    \/ ConvTruncate

SpecConv == ConvInit /\ [][ConvNext]_vars

(***************************************************************************)
(* C6: the convolution is causal and depthwise: the truncated output has   *)
(* exactly T positions, and its value for channel c at time t depends      *)
(* only on channel c of x_in at the times max(0, t-d_conv+1)..t.  Two      *)
(* inputs that differ only at (time at, channel ch) give outputs that      *)
(* agree everywhere but in channel ch at the times at..at+d_conv-1.        *)
(***************************************************************************)
C6_ConvCausal ==
    pc = "conv_done" =>
        /\ \A r \in 1..2 :
              /\ Len(conv.x_conv[r]) = conv.T
              /\ \A t \in 1..conv.T : Len(conv.x_conv[r][t]) = conv.D
        /\ \A t \in 1..conv.T, c \in 1..conv.D :
              (c # conv.ch \/ t < conv.at \/ t > conv.at + conv.d_conv - 1)
                  => conv.x_conv[1][t][c] = conv.x_conv[2][t][c]

C6_Witness ==
    /\ pc = "conv_done"
    /\ conv.T = 3 /\ conv.D = 2 /\ conv.d_conv = 2
    /\ conv.at = 2 /\ conv.ch = 1
    /\ conv.x_conv[1][1] = conv.x_conv[2][1]
    /\ conv.x_conv[1][2][1] # conv.x_conv[2][2][1]
    /\ conv.x_conv[1][3][1] # conv.x_conv[2][3][1]
    /\ conv.x_conv[1][2][2] = conv.x_conv[2][2][2]

(***************************************************************************)
(* RotaryEmbedding.forward (lines 27-37) for one (batch, head) slice:      *)
(* x is a sequence over positions of rows of dim numbers.                  *)
(*                                                                         *)
(* An angle t * inv_freq[i] is held as the pair <<t, i>>.  inv_freq[i]     *)
(* (line 24) takes a different value for every i; the model gives          *)
(* frequency index i an angle whose cosine and sine are exact rationals    *)
(* with denominator 25, so that cos and sin of t times that angle are the  *)
(* real and imaginary part of (c + s*I)^t over 25^t.  A rational is a      *)
(* pair <<numerator, denominator>>.                                        *)
(***************************************************************************)
MaxSeqLen == 2

RotDims == {2, 4}
RotValues == {0, 1}

\* 25 * (cos, sin) of the angle of frequency index i = 0, 1, 2, 3
UnitOfFreq(i) ==
    CASE i = 0 -> <<7, 24>>
      [] i = 1 -> <<15, 20>>
      [] i = 2 -> <<20, 15>>
      [] OTHER -> <<24, 7>>

UnitDen == 25

\* (a + b*I)^n
RECURSIVE GaussPow(_, _)
GaussPow(u, n) ==
    IF n <= 0 THEN <<1, 0>>
    ELSE LET q == GaussPow(u, n - 1)
         IN <<q[1] * u[1] - q[2] * u[2], q[1] * u[2] + q[2] * u[1]>>

\* cos and sin of the angle <<t, i>>
Cos(angle) == <<GaussPow(UnitOfFreq(angle[2]), angle[1])[1], IntPow(UnitDen, angle[1])>>
Sin(angle) == <<GaussPow(UnitOfFreq(angle[2]), angle[1])[2], IntPow(UnitDen, angle[1])>>

RatAdd(a, b) ==
    IF a[2] = b[2]
    THEN <<a[1] + b[1], a[2]>>
    ELSE <<a[1] * b[2] + b[1] * a[2], a[2] * b[2]>>

RatSquare(a) == <<a[1] * a[1], a[2] * a[2]>>

RatEqInt(a, n) == a[1] = n * a[2]

\* lines 29-30: freqs[t][i] = t * inv_freq[i], i over the dim/2 frequencies
Freqs(seq_len, dim) ==
    [t \in 1..seq_len |-> [i \in 1..(dim \div 2) |-> <<t - 1, i - 1>>]]

\* line 31: torch.cat((freqs, freqs), dim=-1)
EmbOf(freqs) == [t \in 1..Len(freqs) |-> freqs[t] \o freqs[t]]

\* lines 34-36: x1 = x[..., ::2], x2 = x[..., 1::2],
\* torch.stack((-x2, x1), dim=-1).flatten(-2)
XRot(x) ==
    [t \in 1..Len(x) |->
        [d \in 1..Len(x[t]) |->
            IF d % 2 = 1 THEN -x[t][d + 1] ELSE x[t][d - 1]]]

\* line 37: x * cos + x_rot * sin
RotOut(x, x_rot, cos, sin) ==
    [t \in 1..Len(x) |->
        [d \in 1..Len(x[t]) |->
            RatAdd(RatScale(x[t][d], cos[t][d]), RatScale(x_rot[t][d], sin[t][d]))]]

RotInit ==
    /\ pc = "rot_call"
    /\ \E T \in 1..MaxSeqLen, dim \in RotDims :
          \E x \in [1..T -> [1..dim -> RotValues]] :
              rot = [dim |-> dim, x |-> x, seq_len |-> 0, freqs |-> Idle,
                     emb |-> Idle, cos |-> Idle, sin |-> Idle, x_rot |-> Idle,
                     out |-> Idle]
    /\ ScanIdle
    /\ op = Idle /\ ret = Idle /\ net = Idle /\ conv = Idle /\ sel = Idle

\* lines 28-30
RotFreqs ==
    /\ pc = "rot_call"
    /\ rot' = [rot EXCEPT !.seq_len = Len(rot.x),
                          !.freqs = Freqs(Len(rot.x), rot.dim)]
    /\ pc' = "rot_emb"
    /\ UNCHANGED <<scanVars, op, ret, net, conv, sel>>

\* line 31
RotEmb ==
    /\ pc = "rot_emb"
    /\ rot' = [rot EXCEPT !.emb = EmbOf(rot.freqs)]
    /\ pc' = "rot_cossin"
    /\ UNCHANGED <<scanVars, op, ret, net, conv, sel>>

\* lines 32-33
RotCosSin ==
    /\ pc = "rot_cossin"
    /\ rot' = [rot EXCEPT
                  !.cos = [t \in 1..rot.seq_len |->
                              [d \in 1..rot.dim |-> Cos(rot.emb[t][d])]],
                  !.sin = [t \in 1..rot.seq_len |->
                              [d \in 1..rot.dim |-> Sin(rot.emb[t][d])]]]
    /\ pc' = "rot_rotate"
    /\ UNCHANGED <<scanVars, op, ret, net, conv, sel>>

\* lines 34-36
RotRotate ==
    /\ pc = "rot_rotate"
    /\ rot' = [rot EXCEPT !.x_rot = XRot(rot.x)]
    /\ pc' = "rot_return"
    /\ UNCHANGED <<scanVars, op, ret, net, conv, sel>>

\* line 37
RotReturn ==
    /\ pc = "rot_return"
    /\ rot' = [rot EXCEPT !.out = RotOut(rot.x, rot.x_rot, rot.cos, rot.sin)]
    /\ pc' = "rot_done"
    /\ UNCHANGED <<scanVars, op, ret, net, conv, sel>>

RotNext ==
    \/ RotFreqs
    \/ RotEmb
    \/ RotCosSin
    \/ RotRotate
    \/ RotReturn

SpecRotary == RotInit /\ [][RotNext]_vars

(***************************************************************************)
(* C7: the rotary encoding preserves the norm of each stride-2 pair: at    *)
(* every position t and pair index i,                                      *)
(* out[2i]^2 + out[2i+1]^2 = x[2i]^2 + x[2i+1]^2.                          *)
(***************************************************************************)
C7_RotaryNormPreserving ==
    pc = "rot_done" =>
        \A t \in 1..rot.seq_len, i \in 0..((rot.dim \div 2) - 1) :
            RatEqInt(RatAdd(RatSquare(rot.out[t][2 * i + 1]),
                            RatSquare(rot.out[t][2 * i + 2])),
                     rot.x[t][2 * i + 1] * rot.x[t][2 * i + 1]
                         + rot.x[t][2 * i + 2] * rot.x[t][2 * i + 2])

(***************************************************************************)
(* MambaBlock.selective_scan, lines 161-170: deltaA and deltaB_u, of shape *)
(* (B, T, D, N), are permuted to (T, B, D, N), viewed as (T, B*D, N),      *)
(* scanned over the leading axis, viewed as (T, B, D, N) again and         *)
(* permuted back.  A tensor of shape (B, T, D, N) is held as x[b][t][d][n];*)
(* a row of the flat view is a function of the pair <<f, n>>.  To compare  *)
(* what ys depends on, the function is run on two inputs that differ in    *)
(* exactly one entry (of deltaA or of deltaB_u) at (b, t, d, n) = at.      *)
(***************************************************************************)
MaxSelT == 3

SelBatch == {1, 2}
SelChannels == {1, 2}
SelStates == {1, 2}
SelSeeds == {0, 1, 2}

\* The entries of the two scan inputs, drawn by a seed.
SelValueA(seed, b, t, d, n) == ((seed + b + 2 * t + 3 * d + 5 * n) % 3) + 1
SelValueBu(seed, b, t, d, n) == (2 * seed + 3 * b + t + 5 * d + 2 * n) % 4

\* lines 161-162, 170: permute(1, 0, 2, 3)
Permute1023(x, d0, d1) ==
    [i \in 1..d1 |-> [j \in 1..d0 |-> x[j][i]]]

\* lines 164-165: view(T_size, -1, N) of a contiguous (T, B, D, N) tensor:
\* entry (t, b, d, n) is entry (t, b*D + d, n) of the view (0-based)
FlatView(x, B, D, N) ==
    [t \in 1..Len(x) |->
        [p \in (1..(B * D)) \X (1..N) |->
            x[t][((p[1] - 1) \div D) + 1][((p[1] - 1) % D) + 1][p[2]]]]

\* line 169: view(T_size, B_size, D_size, N)
UnflatViewChannelMajor(y, B, D, N) ==
    [t \in 1..Len(y) |->
        [b \in 1..B |-> [d \in 1..D |-> [n \in 1..N |->
            y[t][<<(d - 1) * B + b, n>>]]]]]

UnflatView(y, B, D, N) ==
    [t \in 1..Len(y) |->
        [b \in 1..B |-> [d \in 1..D |-> [n \in 1..N |->
            y[t][<<(b - 1) * D + d, n>>]]]]]

SelInputA(seed, B, T, D, N) ==
    [b \in 1..B |-> [t \in 1..T |-> [d \in 1..D |-> [n \in 1..N |->
        SelValueA(seed, b, t, d, n)]]]]

SelInputBu(seed, B, T, D, N) ==
    [b \in 1..B |-> [t \in 1..T |-> [d \in 1..D |-> [n \in 1..N |->
        SelValueBu(seed, b, t, d, n)]]]]

Bump(x, at) ==
    [x EXCEPT ![at[1]][at[2]][at[3]][at[4]] = x[at[1]][at[2]][at[3]][at[4]] + 1]

SelInit ==
    /\ pc = "sel_call"
    /\ \E B \in SelBatch, T \in 1..MaxSelT, D \in SelChannels, N \in SelStates :
          \E seed \in SelSeeds, which \in {"deltaA", "deltaB_u"},
             at \in (1..B) \X (1..T) \X (1..D) \X (1..N) :
              LET a == SelInputA(seed, B, T, D, N)
                  u == SelInputBu(seed, B, T, D, N)
              IN sel = [B_size |-> B, T_size |-> T, D_size |-> D, N |-> N,
                        which |-> which, at |-> at,
                        deltaA |-> <<a, IF which = "deltaA" THEN Bump(a, at) ELSE a>>,
                        deltaB_u |-> <<u, IF which = "deltaB_u" THEN Bump(u, at) ELSE u>>,
                        flat_A |-> Idle, flat_B_u |-> Idle, ys |-> Idle]
    /\ ScanIdle
    /\ op = Idle /\ ret = Idle /\ net = Idle /\ conv = Idle /\ rot = Idle

\* lines 161-162
SelPermute ==
    /\ pc = "sel_call"
    /\ sel' = [sel EXCEPT
                  !.deltaA = <<Permute1023(sel.deltaA[1], sel.B_size, sel.T_size),
                               Permute1023(sel.deltaA[2], sel.B_size, sel.T_size)>>,
                  !.deltaB_u = <<Permute1023(sel.deltaB_u[1], sel.B_size, sel.T_size),
                                 Permute1023(sel.deltaB_u[2], sel.B_size, sel.T_size)>>]
    /\ pc' = "sel_flatten"
    /\ UNCHANGED <<scanVars, op, ret, net, conv, rot>>

\* lines 164-165
SelFlatten ==
    /\ pc = "sel_flatten"
    /\ sel' = [sel EXCEPT
                  !.flat_A = <<FlatView(sel.deltaA[1], sel.B_size, sel.D_size, sel.N),
                               FlatView(sel.deltaA[2], sel.B_size, sel.D_size, sel.N)>>,
                  !.flat_B_u = <<FlatView(sel.deltaB_u[1], sel.B_size, sel.D_size, sel.N),
                                 FlatView(sel.deltaB_u[2], sel.B_size, sel.D_size, sel.N)>>]
    /\ pc' = "sel_scan"
    /\ UNCHANGED <<scanVars, op, ret, net, conv, rot>>

\* line 167: _, ys = associative_scan((flat_A, flat_B_u))
SelScan ==
    /\ pc = "sel_scan"
    /\ sel' = [sel EXCEPT
                  !.ys = <<associative_scan(<<sel.flat_A[1], sel.flat_B_u[1]>>)[2],
                           associative_scan(<<sel.flat_A[2], sel.flat_B_u[2]>>)[2]>>]
    /\ pc' = "sel_view"
    /\ UNCHANGED <<scanVars, op, ret, net, conv, rot>>

\* line 169
SelView ==
    /\ pc = "sel_view"
    /\ sel' = [sel EXCEPT
                  !.ys = <<UnflatView(sel.ys[1], sel.B_size, sel.D_size, sel.N),
                           UnflatView(sel.ys[2], sel.B_size, sel.D_size, sel.N)>>]
    /\ pc' = "sel_permute_back"
    /\ UNCHANGED <<scanVars, op, ret, net, conv, rot>>

\* line 170
SelPermuteBack ==
    /\ pc = "sel_permute_back"
    /\ sel' = [sel EXCEPT
                  !.ys = <<Permute1023(sel.ys[1], sel.T_size, sel.B_size),
                           Permute1023(sel.ys[2], sel.T_size, sel.B_size)>>]
    /\ pc' = "sel_done"
    /\ UNCHANGED <<scanVars, op, ret, net, conv, rot>>

SelNext ==
    \/ SelPermute
    \/ SelFlatten
    \/ SelScan
    \/ SelView
    \/ SelPermuteBack

SpecSel == SelInit /\ [][SelNext]_vars

(***************************************************************************)
(* C8: ys[b,t,d,n] is a function only of the scan inputs at the same       *)
(* batch b, channel d and state index n and at times t' <= t.  Two runs    *)
(* whose inputs differ in one entry, at (b', t', d', n'), give ys that     *)
(* agree at every (b, t, d, n) with (b, d, n) # (b', d', n') or t < t'.    *)
(***************************************************************************)
C8_ScanIndependentAcrossAxes ==
    pc = "sel_done" =>
        \A b \in 1..sel.B_size, t \in 1..sel.T_size,
           d \in 1..sel.D_size, n \in 1..sel.N :
            (<<b, d, n>> # <<sel.at[1], sel.at[3], sel.at[4]>> \/ t < sel.at[2])
                => sel.ys[1][b][t][d][n] = sel.ys[2][b][t][d][n]

C8_Witness ==
    /\ pc = "sel_done"
    /\ sel.B_size = 2 /\ sel.T_size = 3 /\ sel.D_size = 2 /\ sel.N = 2
    /\ sel.at = <<2, 2, 1, 2>>
    /\ sel.ys[1][2][2][1][2] # sel.ys[2][2][2][1][2]
    /\ sel.ys[1][2][3][1][2] # sel.ys[2][2][3][1][2]
    /\ sel.ys[1][2][1][1][2] = sel.ys[2][2][1][1][2]
    /\ sel.ys[1][1] = sel.ys[2][1]

====
